---- MODULE Spec2Model ----
(***************************************************************************)
(* FaceFinder: the result deduplication of the Results and Gallery views   *)
(* (src/pages/Results.tsx `process`, src/pages/Gallery.tsx `loadGallery`)  *)
(* and the fullscreen viewer navigation of the Results view.               *)
(*                                                                         *)
(* Conventions.  An optional field that is undefined in the TypeScript     *)
(* object is `Absent` (numbers), "absent" (strings), NoUrl (urls) or <<>>   *)
(* (the `timestamps` array, which the code only ever creates non-empty).   *)
(* Similarities are integers (a fixed-point rendering of the 0..1 score).  *)
(* A URL string is a record: kind "bare" is a storage path `name`, kind    *)
(* "api" is `/api/images/name`, kind "http" is an absolute URL on `host`.  *)
(***************************************************************************)
EXTENDS Integers, Sequences, FiniteSets, TLC, Bags

VARIABLES
    \* ---- one run of the deduplication loops on one batch ----
    dd_input,      \* the raw batch handed to the loop (data / images)
    dd_saved,      \* savedIdsSet of the Results run
    dd_view,       \* "none" | "results" | "gallery": which loop ran
    dd_runs,       \* how many times the loop has run (0, 1, 2)
    dd_first,      \* output of the first run (kept once a second run is made)
    dd_output,     \* output of the latest run (finalResults / finalItems before the sort)
    \* ---- the backend ----
    matching,      \* the ids of the records the backend answers with: the matches
                   \* of the searched face, or the items saved to the gallery
    \* ---- the App ----
    mounted,       \* the page it renders: "none" | "Results" | "Gallery"
    \* ---- the Results component: props ----
    sourceFile,    \* props.sourceFile (NoFile when null)
    token,         \* props.token (NoToken when null)
    propSavedIds,  \* props.savedImageIds
    \* ---- the Results component: state ----
    loading,
    results,
    selectedImage,       \* NoPhoto when null
    viewerMode,          \* "info" | "fullscreen"
    currentImageIndex,
    savedImageIds,
    activeMediaType,
    \* ---- the Results component: refs, effect and promises in flight ----
    processingRef,       \* processingRef.current (NoFile when null)
    abortControllerRef,  \* the number of the controller in the ref, 0 when null
    aborted,             \* the controllers whose signal is aborted
    hasCleanup,          \* the last effect run returned its cleanup
    runs,                \* the calls of process(): controller number -> position
    saves,               \* the handleSave calls awaiting saveToGallery
    saveRequests,        \* the bag of the record ids saveToGallery was called with
    started,             \* how many requests were started after the mount
    \* ---- the Results component: the touch gesture ----
    touchStart,          \* Absent when null
    touchEnd,            \* Absent when null
    \* ---- the Gallery component ----
    g_loading,
    g_items,
    g_activeMediaType,
    g_selectedImage,     \* NoPhoto when null
    g_currentImageIndex,
    g_isZoomed,
    g_touchStart,        \* Absent when null
    g_touchEnd,          \* Absent when null
    g_deletes,           \* the handleDelete calls awaiting deleteFromGallery
    \* ---- the Toast component, the user ----
    toast,               \* the notification the last step raised: "none" | "success" | "error"
    lastInput            \* the input or completion the last step handled

ddvars == <<dd_input, dd_saved, dd_view, dd_runs, dd_first, dd_output>>

props == <<mounted, sourceFile, token, propSavedIds>>

viewer == <<selectedImage, viewerMode, currentImageIndex>>

search == <<processingRef, abortControllerRef, aborted, hasCleanup, runs>>

touch == <<touchStart, touchEnd>>

saving == <<saves, saveRequests>>

rvars == <<matching, props, loading, results, viewer, savedImageIds, activeMediaType, search, saving,
           started, touch, toast, lastInput>>

g_viewer == <<g_selectedImage, g_currentImageIndex, g_isZoomed>>

g_touch == <<g_touchStart, g_touchEnd>>

gvars == <<g_loading, g_items, g_activeMediaType, g_viewer, g_touch, g_deletes>>

vars == <<ddvars, rvars, gvars>>

-----------------------------------------------------------------------------
(* Bounds of the model *)

MaxBatch == 3          \* longest raw batch of the deduplication runs

MaxRequests == 1       \* requests (searches, saves, deletes) started after the mount

MaxResponse == 2       \* longest search response of the Results component

MaxSearches == 2       \* calls of process() in one life of the Results component

MaxPendingSaves == 1   \* handleSave calls awaiting saveToGallery at one time

MaxDeletes == 2        \* deleteFromGallery calls in one life of the Gallery, when deletes are followed

MaxPendingDeletes == 2 \* handleDelete calls awaiting deleteFromGallery at one time, when deletes are followed

MaxOverlappingSaves == 2 \* handleSave calls in one life of Results, when overlapping saves are followed

MaxShown == 3          \* longest search response when the saves of a signed-in user are followed

-----------------------------------------------------------------------------
(* Values *)

Absent == -1           \* an undefined optional number (timestamp?: number)

API_BASE_URL == "hf"   \* the host of the backend

NoUrl == [kind |-> "none", host |-> "", name |-> ""]

Range(s) == {s[i] : i \in 1..Len(s)}

Min(a, b) == IF a <= b THEN a ELSE b

\* getImageUrl: absolute URLs pass through, `/api/images/x` and `x` both
\* become API_BASE_URL/api/images/x
getImageUrl(imagePath) ==
    IF imagePath.kind = "http"
    THEN imagePath
    ELSE [kind |-> "http", host |-> API_BASE_URL, name |-> imagePath.name]

\* `x.timestamp || 0`
TsOrZero(t) == IF t = Absent \/ t = 0 THEN 0 ELSE t

\* `item.media_type || 'image'`
TypeOrImage(mt) == IF mt = "absent" THEN "image" ELSE mt

\* Array.prototype.sort((a, b) => a - b): a stable insertion sort, ascending
RECURSIVE InsertAsc(_, _)
InsertAsc(s, x) ==
    IF s = <<>> THEN <<x>>
    ELSE IF x < Head(s) THEN <<x>> \o s
    ELSE <<Head(s)>> \o InsertAsc(Tail(s), x)

RECURSIVE SortAsc(_)
SortAsc(s) == IF s = <<>> THEN <<>> ELSE InsertAsc(SortAsc(SubSeq(s, 1, Len(s) - 1)), s[Len(s)])

\* the push without the sort that follows it
PushUnsorted(timestamps, ts) == Append(timestamps, ts)

\* existing.timestamps.push(ts); existing.timestamps.sort(...)
PushSorted(timestamps, ts) == SortAsc(Append(timestamps, ts))

\* a lookup that never finds the entry
uniqueVideosGetNone(uniqueVideos, url) == 0

\* uniqueVideos.get(url): the position of the entry in the insertion-ordered
\* Map, 0 when there is none
uniqueVideosGet(uniqueVideos, url) ==
    IF \E i \in 1..Len(uniqueVideos) : uniqueVideos[i].imageUrl = url
    THEN CHOOSE i \in 1..Len(uniqueVideos) : uniqueVideos[i].imageUrl = url
    ELSE 0

-----------------------------------------------------------------------------
(* Results.tsx process: the forEach over the search response *)

\* the normalized item of Results.tsx
ResultsProcessedItem(item) ==
    [item EXCEPT
        !.isSaved = FALSE,
        !.imageUrl = getImageUrl(item.imageUrl),
        !.media_type = TypeOrImage(item.media_type),
        !.type = TypeOrImage(item.media_type),
        !.videoUrl = IF item.media_type = "video" THEN getImageUrl(item.imageUrl) ELSE NoUrl,
        !.timestamps = IF item.media_type = "video" THEN <<TsOrZero(item.timestamp)>> ELSE <<>>]

\* the merge without the better-match update: the first member's scalars stay
ResultsMergeKeepFirst(existing, processedItem) ==
    LET ts == TsOrZero(processedItem.timestamp)
    IN  IF ts \notin Range(existing.timestamps)
        THEN [existing EXCEPT !.timestamps = PushSorted(@, ts)]
        ELSE existing

\* the better-match update without `existing.timestamp = ts`
ResultsMergeNoTimestamp(existing, processedItem) ==
    LET ts == TsOrZero(processedItem.timestamp)
        e1 == IF ts \notin Range(existing.timestamps)
              THEN [existing EXCEPT !.timestamps = PushSorted(@, ts)]
              ELSE existing
    IN  IF processedItem.similarity > e1.similarity
        THEN [e1 EXCEPT !.similarity = processedItem.similarity,
                        !.confidence = processedItem.confidence]
        ELSE e1

\* the else branch of `if (!existing)` in Results.tsx
ResultsMerge(existing, processedItem) ==
    LET ts == TsOrZero(processedItem.timestamp)
        e1 == IF ts \notin Range(existing.timestamps)
              THEN [existing EXCEPT !.timestamps = PushSorted(@, ts)]
              ELSE existing
    IN  IF processedItem.similarity > e1.similarity
        THEN [e1 EXCEPT !.similarity = processedItem.similarity,
                        !.confidence = processedItem.confidence,
                        !.timestamp = ts]
        ELSE e1

\* the iteration with the better match put into the map in place of the
\* retained record (uniqueVideos.set on a better match)
ResultsStepReplace(acc, item, savedIdsSet) ==
    IF item.id \in savedIdsSet THEN acc
    ELSE LET processedItem == ResultsProcessedItem(item) IN
         IF processedItem.media_type = "video"
         THEN LET i == uniqueVideosGet(acc.uniqueVideos, processedItem.imageUrl) IN
              IF i = 0
              THEN [acc EXCEPT !.uniqueVideos = Append(@, processedItem)]
              ELSE IF processedItem.similarity > acc.uniqueVideos[i].similarity
                   THEN [acc EXCEPT !.uniqueVideos[i] =
                            [processedItem EXCEPT !.timestamps =
                                ResultsMerge(acc.uniqueVideos[i], processedItem).timestamps]]
                   ELSE [acc EXCEPT !.uniqueVideos[i] = ResultsMerge(@, processedItem)]
         ELSE [acc EXCEPT !.processedImages = Append(@, processedItem)]

\* one iteration of data.forEach in Results.tsx
ResultsStep(acc, item, savedIdsSet) ==
    IF item.id \in savedIdsSet THEN acc
    ELSE LET processedItem == ResultsProcessedItem(item) IN
         IF processedItem.media_type = "video"
         THEN LET i == uniqueVideosGet(acc.uniqueVideos, processedItem.imageUrl) IN
              IF i = 0
              THEN [acc EXCEPT !.uniqueVideos = Append(@, processedItem)]
              ELSE [acc EXCEPT !.uniqueVideos[i] = ResultsMerge(@, processedItem)]
         ELSE [acc EXCEPT !.processedImages = Append(@, processedItem)]

RECURSIVE ResultsLoop(_, _, _)
ResultsLoop(acc, data, savedIdsSet) ==
    IF data = <<>> THEN acc
    ELSE ResultsLoop(ResultsStep(acc, Head(data), savedIdsSet), Tail(data), savedIdsSet)

EmptyAcc == [uniqueVideos |-> <<>>, processedImages |-> <<>>]

\* a finalResults with the videos put first
ResultsDedupVideosFirst(data, savedIdsSet) ==
    LET acc == ResultsLoop(EmptyAcc, data, savedIdsSet)
    IN  acc.uniqueVideos \o acc.processedImages

\* finalResults before the sort: [...processedImages, ...uniqueVideos.values()]
ResultsDedup(data, savedIdsSet) ==
    LET acc == ResultsLoop(EmptyAcc, data, savedIdsSet)
    IN  acc.processedImages \o acc.uniqueVideos

-----------------------------------------------------------------------------
(* Gallery.tsx loadGallery: the forEach over the gallery images *)

\* getGalleryImages maps every image through getImageUrl
getGalleryImages(raw) == [i \in 1..Len(raw) |-> [raw[i] EXCEPT !.imageUrl = getImageUrl(@)]]

GalleryProcessedItem(item) ==
    [item EXCEPT
        !.type = TypeOrImage(item.media_type),
        !.videoUrl = IF item.media_type = "video" THEN item.imageUrl ELSE NoUrl,
        !.timestamps = IF item.media_type = "video" THEN <<TsOrZero(item.timestamp)>> ELSE <<>>]

\* the else branch of `if (!existing)` in Gallery.tsx: timestamps only
GalleryMerge(existing, processedItem) ==
    LET ts == TsOrZero(processedItem.timestamp)
    IN  IF existing.timestamps # <<>> /\ ts \notin Range(existing.timestamps)
        THEN [existing EXCEPT !.timestamps = PushSorted(@, ts)]
        ELSE existing

\* the iteration without the Map: every video is kept as its own record
GalleryStepNoDedup(acc, item) ==
    LET processedItem == GalleryProcessedItem(item) IN
    IF processedItem.type = "video"
    THEN [acc EXCEPT !.uniqueVideos = Append(@, processedItem)]
    ELSE [acc EXCEPT !.processedImages = Append(@, processedItem)]

\* one iteration of images.forEach in Gallery.tsx
GalleryStep(acc, item) ==
    LET processedItem == GalleryProcessedItem(item) IN
    IF processedItem.type = "video"
    THEN LET i == uniqueVideosGet(acc.uniqueVideos, processedItem.imageUrl) IN
         IF i = 0
         THEN [acc EXCEPT !.uniqueVideos = Append(@, processedItem)]
         ELSE [acc EXCEPT !.uniqueVideos[i] = GalleryMerge(@, processedItem)]
    ELSE [acc EXCEPT !.processedImages = Append(@, processedItem)]

RECURSIVE GalleryLoop(_, _)
GalleryLoop(acc, images) ==
    IF images = <<>> THEN acc
    ELSE GalleryLoop(GalleryStep(acc, Head(images)), Tail(images))

\* finalItems before the sort
GalleryDedup(images) ==
    LET acc == GalleryLoop(EmptyAcc, images)
    IN  acc.processedImages \o acc.uniqueVideos

-----------------------------------------------------------------------------
(* The deduplication runs: a raw batch is drawn, one of the two loops runs  *)
(* on it, and then runs once more on its own output.                        *)

Urls == { [kind |-> "bare", host |-> "", name |-> "V"],
          [kind |-> "api",  host |-> "", name |-> "V"],
          [kind |-> "http", host |-> "cdn", name |-> "W"] }

Sims == {1, 2}

Stamps == {Absent, 5, 12}

\* the percentage the backend sends along with a similarity
ApiConfidence(sim) == sim * 10

RawItem(id, url, mt, ts, sim) ==
    [id |-> id, imageUrl |-> url, videoUrl |-> NoUrl, media_type |-> mt, type |-> "absent",
     timestamp |-> ts, timestamps |-> <<>>, similarity |-> sim,
     confidence |-> ApiConfidence(sim), isSaved |-> FALSE]

\* the raw records the backend may send with id `id`: video detections with
\* or without a timestamp, images with or without a media_type, and a record
\* of a media_type the client does not know (the JSON is not validated)
RawItems(id) ==
    {RawItem(id, u, "video", ts, sim) : u \in Urls, ts \in Stamps, sim \in Sims}
    \cup {RawItem(id, [kind |-> "bare", host |-> "", name |-> "V"], "image", Absent, 1),
          RawItem(id, [kind |-> "api", host |-> "", name |-> "V"], "absent", Absent, 1),
          RawItem(id, [kind |-> "http", host |-> "cdn", name |-> "W"], "gif", Absent, 1)}

\* the records of a batch before the backend numbers them
Templates == RawItems(0)

\* ids are unique within a batch: the record at position i has id i
Numbered(t) == [i \in 1..Len(t) |-> [t[i] EXCEPT !.id = i]]

SavedChoices == {{}, {1}}

NoFile == "nofile"

NoToken == "notoken"

\* selectedImage === null
NoPhoto == RawItem(0, NoUrl, "absent", Absent, 0)

\* the state of the Results component as its useState/useRef calls leave it
ResultsConstructed ==
    /\ loading = TRUE
    /\ results = <<>>
    /\ selectedImage = NoPhoto
    /\ viewerMode = "info"
    /\ currentImageIndex = 0
    /\ savedImageIds = propSavedIds
    /\ activeMediaType = "image"
    /\ saves = {}
    /\ saveRequests = EmptyBag
    /\ started = 0
    /\ touchStart = Absent /\ touchEnd = Absent
    /\ toast = "none"
    /\ lastInput = "mount"

\* no Results component is mounted
ResultsUnused ==
    /\ sourceFile = NoFile /\ token = NoToken /\ propSavedIds = {}
    /\ ResultsConstructed
    /\ processingRef = NoFile /\ abortControllerRef = 0 /\ aborted = {}
    /\ hasCleanup = FALSE /\ runs = <<>>

GalleryConstructed ==
    /\ g_loading = TRUE
    /\ g_items = <<>>
    /\ g_activeMediaType = "image"
    /\ g_selectedImage = NoPhoto
    /\ g_currentImageIndex = 0
    /\ g_isZoomed = FALSE
    /\ g_touchStart = Absent /\ g_touchEnd = Absent
    /\ g_deletes = {}

\* no Gallery component is mounted
GalleryUnused == GalleryConstructed

DedupInit ==
    /\ matching = {}
    /\ mounted = "none"
    /\ ResultsUnused
    /\ GalleryUnused
    /\ \E n \in 0..MaxBatch : \E t \in [1..n -> Templates] : dd_input = Numbered(t)
    /\ dd_saved \in SavedChoices
    /\ dd_view = "none"
    /\ dd_runs = 0
    /\ dd_first = <<>>
    /\ dd_output = <<>>

\* Results.tsx: the loop of `process` on the search response
RunResults ==
    /\ dd_runs = 0
    /\ dd_view' = "results"
    /\ dd_output' = ResultsDedup(dd_input, dd_saved)
    /\ dd_runs' = 1
    /\ UNCHANGED <<dd_input, dd_saved, dd_first>>
    /\ UNCHANGED <<rvars, gvars>>

\* Gallery.tsx: the loop of `loadGallery` on what getGalleryImages returned
RunGallery ==
    /\ dd_runs = 0
    /\ dd_saved = {}
    /\ dd_view' = "gallery"
    /\ dd_output' = GalleryDedup(getGalleryImages(dd_input))
    /\ dd_runs' = 1
    /\ UNCHANGED <<dd_input, dd_saved, dd_first>>
    /\ UNCHANGED <<rvars, gvars>>

\* the same loop once more, on its own output
RunAgain ==
    /\ dd_runs = 1
    /\ dd_first' = dd_output
    /\ dd_output' = IF dd_view = "results"
                    THEN ResultsDedup(dd_output, dd_saved)
                    ELSE GalleryDedup(getGalleryImages(dd_output))
    /\ dd_runs' = 2
    /\ dd_input' = <<>>
    /\ UNCHANGED <<dd_saved, dd_view>>
    /\ UNCHANGED <<rvars, gvars>>

DedupNext == RunResults \/ RunGallery \/ RunAgain

SpecDedup == DedupInit /\ [][DedupNext]_vars

-----------------------------------------------------------------------------
(* Vocabulary of the deduplication claims *)

\* the records that reach the deduplicator: Results skips the ones already
\* saved before it normalizes (Results.tsx line 94), Gallery takes all
Kept == IF dd_view = "results"
        THEN SelectSeq(dd_input, LAMBDA r : r.id \notin dd_saved)
        ELSE dd_input

MediaUrl(raw) == getImageUrl(raw.imageUrl)

IsVideoRaw(raw) == raw.media_type = "video"

\* positions in Kept of the members of the video group of `url`
Group(url) == {k \in 1..Len(Kept) : IsVideoRaw(Kept[k]) /\ MediaUrl(Kept[k]) = url}

FirstOf(S) == CHOOSE k \in S : \A j \in S : k <= j

\* the highest-similarity member of a group, the earliest one on ties
BestOf(S) == CHOOSE k \in S :
                /\ \A j \in S : Kept[j].similarity <= Kept[k].similarity
                /\ \A j \in S : Kept[j].similarity = Kept[k].similarity => k <= j

VideosOut == {i \in 1..Len(dd_output) : dd_output[i].type = "video"}

SharedVideoUrl == \E i, j \in 1..Len(Kept) :
                     i # j /\ IsVideoRaw(Kept[i]) /\ IsVideoRaw(Kept[j])
                     /\ MediaUrl(Kept[i]) = MediaUrl(Kept[j])

-----------------------------------------------------------------------------
(* Claims about the deduplicator (checked under SpecDedup) *)

\* C2: after deduplication the output holds at most one video record per
\* distinct mediaUrl, and images are never merged: every image record that
\* reaches the deduplicator is in the output as its own record, under its
\* own id, even when two images share a URL.
C2_OneVideoPerUrl ==
    dd_runs = 1 =>
        /\ \A i, j \in VideosOut : i # j => dd_output[i].imageUrl # dd_output[j].imageUrl
        /\ \A k \in 1..Len(Kept) : ~IsVideoRaw(Kept[k]) =>
              Cardinality({i \in 1..Len(dd_output) :
                              /\ dd_output[i].id = Kept[k].id
                              /\ dd_output[i].type # "video"
                              /\ dd_output[i].imageUrl = MediaUrl(Kept[k])}) = 1
        /\ Cardinality((1..Len(dd_output)) \ VideosOut)
              = Cardinality({k \in 1..Len(Kept) : ~IsVideoRaw(Kept[k])})

\* two images and a video that all share one URL
C2_Witness ==
    /\ dd_runs = 1
    /\ \E i, j, k \in 1..Len(Kept) :
          /\ i # j /\ ~IsVideoRaw(Kept[i]) /\ ~IsVideoRaw(Kept[j]) /\ IsVideoRaw(Kept[k])
          /\ MediaUrl(Kept[i]) = MediaUrl(Kept[j])
          /\ MediaUrl(Kept[i]) = MediaUrl(Kept[k])

\* C3: for every video record of the output, timestamps is strictly
\* increasing and is exactly the set of the timestamps of the members of
\* its group, a missing timestamp counting as 0.
C3_TimestampsUnion ==
    dd_runs = 1 =>
        \A i \in VideosOut :
            LET v == dd_output[i] IN
            /\ \A a, b \in 1..Len(v.timestamps) : a < b => v.timestamps[a] < v.timestamps[b]
            /\ Range(v.timestamps) = {TsOrZero(Kept[k].timestamp) : k \in Group(v.imageUrl)}

\* a group of three whose timestamps arrive out of order, one of them twice
C3_Witness ==
    /\ dd_runs = 1
    /\ \E i \in VideosOut :
          LET G == Group(dd_output[i].imageUrl) IN
          /\ Cardinality(G) = 3
          /\ Len(dd_output[i].timestamps) = 2
          /\ \E a, b \in G : a < b /\ TsOrZero(Kept[a].timestamp) > TsOrZero(Kept[b].timestamp)

\* C4 as stated: in both load paths the retained record of every video
\* group has the similarity and the confidence of the highest-similarity
\* member of the group (the earliest one on ties).
C4_BestScalarsBothViews ==
    dd_runs = 1 =>
        \A i \in VideosOut :
            LET m == Kept[BestOf(Group(dd_output[i].imageUrl))] IN
            /\ dd_output[i].similarity = m.similarity
            /\ dd_output[i].confidence = m.confidence

\* C4 as amended: the retained record has the similarity and confidence of
\* the highest-similarity member (the earliest on ties) in the Results load
\* path, and of the first member of the group in the Gallery load path.
C4_BestScalarsResults ==
    dd_runs = 1 =>
        \A i \in VideosOut :
            LET G == Group(dd_output[i].imageUrl)
                m == Kept[IF dd_view = "results" THEN BestOf(G) ELSE FirstOf(G)]
            IN  /\ dd_output[i].similarity = m.similarity
                /\ dd_output[i].confidence = m.confidence

C4_Witness ==
    /\ dd_runs = 1
    /\ dd_view = "results"
    /\ \E i \in VideosOut :
          LET G == Group(dd_output[i].imageUrl) IN
          Kept[BestOf(G)].similarity > Kept[FirstOf(G)].similarity

\* C5: the id of the retained record of every video group is the id of the
\* first member of that mediaUrl in input order, whatever the similarities
\* of the later members.
C5_RetainedIdIsFirst ==
    dd_runs = 1 =>
        \A i \in VideosOut :
            dd_output[i].id = Kept[FirstOf(Group(dd_output[i].imageUrl))].id

\* a later member is the better match, and the record before the group's
\* first member was skipped as saved
C5_Witness ==
    /\ dd_runs = 1
    /\ dd_view = "results"
    /\ dd_saved = {1}
    /\ \E i \in VideosOut :
          LET G == Group(dd_output[i].imageUrl) IN
          /\ BestOf(G) # FirstOf(G)
          /\ dd_output[i].similarity > Kept[FirstOf(G)].similarity

\* C6 as stated: timestamps[0] of the retained record is the timestamp of
\* the highest-similarity member of the group (Results load path).
C6_FirstStampIsBest ==
    (dd_runs = 1 /\ dd_view = "results") =>
        \A i \in VideosOut :
            dd_output[i].timestamps[1]
                = TsOrZero(Kept[BestOf(Group(dd_output[i].imageUrl))].timestamp)

\* C6 as amended: in the Results load path the scalar `timestamp` field of
\* the retained record (a missing one counting as 0) is the timestamp of the
\* highest-similarity member of the group, the earliest on ties;
\* timestamps[0] is the smallest timestamp of the group.
C6_TimestampFieldIsBest ==
    (dd_runs = 1 /\ dd_view = "results") =>
        \A i \in VideosOut :
            LET G == Group(dd_output[i].imageUrl) IN
            /\ TsOrZero(dd_output[i].timestamp) = TsOrZero(Kept[BestOf(G)].timestamp)
            /\ \E k \in G : dd_output[i].timestamps[1] = TsOrZero(Kept[k].timestamp)
            /\ \A k \in G : dd_output[i].timestamps[1] <= TsOrZero(Kept[k].timestamp)

\* the best match is a later member and is not the earliest appearance
C6_Witness ==
    /\ dd_runs = 1
    /\ dd_view = "results"
    /\ \E i \in VideosOut :
          LET G == Group(dd_output[i].imageUrl) IN
          /\ BestOf(G) # FirstOf(G)
          /\ dd_output[i].timestamps[1] < TsOrZero(Kept[BestOf(G)].timestamp)

\* C7: the output is no longer than the batch that reaches the
\* deduplicator, and as long exactly when no two of its video records share
\* a mediaUrl.
C7_LengthIff ==
    dd_runs = 1 =>
        /\ Len(dd_output) <= Len(Kept)
        /\ (Len(dd_output) = Len(Kept)) <=> ~SharedVideoUrl

C7_Witness ==
    /\ dd_runs = 1
    /\ dd_view = "gallery"
    /\ SharedVideoUrl
    /\ Len(dd_output) = Len(Kept) - 2

\* C8: a second run of the deduplicator on its own output yields the output
\* of the first run.
C8_Idempotent == dd_runs = 2 => dd_output = dd_first

-----------------------------------------------------------------------------
(* The Results component (src/pages/Results.tsx)                             *)

Files == {"f1"}

Tokens == {"t1"}

\* the records of the backend that match the searched face, in the order it
\* ranks them: two images that share a file, two detections in one video
\* (stored under two spellings of its path), a second video, and a record
\* without imageUrl
Database ==
    << RawItem(1, [kind |-> "bare", host |-> "", name |-> "V"], "absent", Absent, 2),
       RawItem(2, [kind |-> "api", host |-> "", name |-> "V"], "image", Absent, 1),
       RawItem(3, [kind |-> "bare", host |-> "", name |-> "V"], "video", 12, 1),
       RawItem(4, [kind |-> "api", host |-> "", name |-> "V"], "video", 5, 2),
       RawItem(5, [kind |-> "http", host |-> "cdn", name |-> "W"], "video", Absent, 1),
       RawItem(6, NoUrl, "image", Absent, 2) >>

\* the records of Database at the positions S, in its order
RECURSIVE Pick(_, _)
Pick(db, S) ==
    IF db = <<>> THEN <<>>
    ELSE (IF Head(db).id \in S THEN <<Head(db)>> ELSE <<>>) \o Pick(Tail(db), S)

\* a process() that showed finalResults without sorting it
SortNone(s) == s

\* finalResults.sort((a, b) => b.similarity - a.similarity): stable, descending
RECURSIVE InsertBySimilarity(_, _)
InsertBySimilarity(s, x) ==
    IF s = <<>> THEN <<x>>
    ELSE IF x.similarity > Head(s).similarity THEN <<x>> \o s
    ELSE <<Head(s)>> \o InsertBySimilarity(Tail(s), x)

RECURSIVE SortBySimilarity(_)
SortBySimilarity(s) ==
    IF s = <<>> THEN <<>>
    ELSE InsertBySimilarity(SortBySimilarity(SubSeq(s, 1, Len(s) - 1)), s[Len(s)])

\* list.filter(i => (i.media_type || 'image') === mediaType)
FilterByType(list, mediaType) ==
    SelectSeq(list, LAMBDA i : TypeOrImage(i.media_type) = mediaType)

\* results.filter(p => p.id !== id)
WithoutId(list, id) == SelectSeq(list, LAMBDA p : p.id # id)

filteredResults == FilterByType(results, activeMediaType)

\* list.findIndex(r => r.id === id), 0-based, -1 when there is none
findIndex(list, id) ==
    IF \E i \in 1..Len(list) : list[i].id = id
    THEN (CHOOSE i \in 1..Len(list) : list[i].id = id /\ \A j \in 1..(i - 1) : list[j].id # id) - 1
    ELSE 0 - 1

\* a viewer that always opened on the first record
OpenIndexFirst(list, id) == 0

\* const index = list.findIndex(r => r.id === image.id); index >= 0 ? index : 0
OpenIndex(list, id) ==
    LET index == findIndex(list, id) IN IF index >= 0 THEN index ELSE 0

\* the loading screen replaces the whole view; both overlays cover the grid
\* and the tabs (fixed inset-0)
GridShown == ~loading /\ selectedImage = NoPhoto

FullscreenOpen == ~loading /\ selectedImage # NoPhoto /\ viewerMode = "fullscreen"

InfoOpen == ~loading /\ selectedImage # NoPhoto /\ viewerMode = "info"

\* the part of the effect before process(): the duplicate guard, the abort
\* of the previous controller, the new controller; process() up to its
\* first await
EffectRun(file, tok, psaved, pr, acr, ab, rn) ==
    IF file = NoFile \/ pr = file
    THEN [processingRef |-> pr, abortControllerRef |-> acr, aborted |-> ab,
          hasCleanup |-> FALSE, runs |-> rn]
    ELSE [processingRef |-> file,
          abortControllerRef |-> Len(rn) + 1,
          aborted |-> ab \cup (IF acr # 0 THEN {acr} ELSE {}),
          hasCleanup |-> TRUE,
          runs |-> Append(rn, [stage |-> IF tok # NoToken THEN "savedIds" ELSE "search",
                               savedIdsSet |-> IF tok # NoToken THEN {} ELSE psaved])]

\* the cleanup the effect returned
EffectCleanup(pr, acr, ab, hc) ==
    IF hc
    THEN [processingRef |-> NoFile, aborted |-> ab \cup (IF acr # 0 THEN {acr} ELSE {})]
    ELSE [processingRef |-> pr, aborted |-> ab]

\* the component is mounted with its props over a backend that holds at most
\* n matches, and its effect has run once
ResultsMounted(n) ==
    /\ dd_input = <<>> /\ dd_saved = {} /\ dd_view = "none"
    /\ dd_runs = 0 /\ dd_first = <<>> /\ dd_output = <<>>
    /\ matching \in {S \in SUBSET (1..Len(Database)) : Cardinality(S) <= n}
    /\ sourceFile \in Files \cup {NoFile}
    /\ token \in Tokens \cup {NoToken}
    /\ propSavedIds \in SavedChoices
    /\ mounted = "Results"
    /\ ResultsConstructed
    /\ GalleryUnused
    /\ LET e == EffectRun(sourceFile, token, propSavedIds, NoFile, 0, {}, <<>>) IN
       /\ processingRef = e.processingRef
       /\ abortControllerRef = e.abortControllerRef
       /\ aborted = e.aborted
       /\ hasCleanup = e.hasCleanup
       /\ runs = e.runs

ResultsInit == ResultsMounted(MaxResponse)

\* the parent renders the component with another sourceFile or token: the
\* cleanup of the last effect runs, then the effect
PropsChange(file, tok) ==
    /\ <<file, tok>> # <<sourceFile, token>>
    /\ Len(runs) < MaxSearches
    /\ started < MaxRequests
    /\ sourceFile' = file
    /\ token' = tok
    /\ LET c == EffectCleanup(processingRef, abortControllerRef, aborted, hasCleanup)
           e == EffectRun(file, tok, propSavedIds, c.processingRef, abortControllerRef,
                          c.aborted, runs)
       IN  /\ processingRef' = e.processingRef
           /\ abortControllerRef' = e.abortControllerRef
           /\ aborted' = e.aborted
           /\ hasCleanup' = e.hasCleanup
           /\ runs' = e.runs
    /\ started' = IF Len(runs') > Len(runs) THEN started + 1 ELSE started
    /\ toast' = "none"
    /\ UNCHANGED <<ddvars, gvars, touch, matching, mounted, propSavedIds, loading, results, viewer,
                   savedImageIds, activeMediaType, saving>>

\* process(): getSavedImageIds resolves (it takes no abort signal)
SavedIdsResolve(c, ids) ==
    /\ runs[c].stage = "savedIds"
    /\ runs' = [runs EXCEPT ![c] = [stage |-> "search", savedIdsSet |-> ids]]
    /\ savedImageIds' = ids
    /\ toast' = "none"
    /\ UNCHANGED <<ddvars, gvars, touch, matching, props, loading, results, viewer, activeMediaType, saving, started,
                   processingRef, abortControllerRef, aborted, hasCleanup>>

\* process(): getSavedImageIds throws, the inner catch logs it
SavedIdsFail(c) ==
    /\ runs[c].stage = "savedIds"
    /\ runs' = [runs EXCEPT ![c] = [stage |-> "search", savedIdsSet |-> {}]]
    /\ toast' = "none"
    /\ UNCHANGED <<ddvars, gvars, touch, matching, props, loading, results, viewer, savedImageIds, activeMediaType, saving, started,
                   processingRef, abortControllerRef, aborted, hasCleanup>>

\* getImageUrl(undefined) throws a TypeError (imagePath.startsWith): the
\* loop over `data` throws at the first record it normalizes that has no
\* imageUrl
ResponseThrows(data, savedIdsSet) ==
    \E i \in 1..Len(data) : data[i].id \notin savedIdsSet /\ data[i].imageUrl = NoUrl

\* a process() without the signal.aborted check after the search
SearchResolveUnchecked(c, data) ==
    /\ runs[c].stage = "search"
    /\ IF ResponseThrows(data, runs[c].savedIdsSet)
       THEN \* catch: the error toast, setLoading(false)
            /\ loading' = FALSE
            /\ toast' = "error"
            /\ UNCHANGED <<results, activeMediaType>>
       ELSE LET acc == ResultsLoop(EmptyAcc, data, runs[c].savedIdsSet)
                finalResults == SortBySimilarity(acc.processedImages \o acc.uniqueVideos)
            IN  /\ results' = finalResults
                /\ loading' = FALSE
                /\ activeMediaType' = IF acc.processedImages = <<>> /\ acc.uniqueVideos # <<>>
                                      THEN "video" ELSE activeMediaType
                /\ toast' = "none"
    /\ processingRef' = NoFile
    /\ runs' = [runs EXCEPT ![c] = [stage |-> "done", savedIdsSet |-> {}]]
    /\ UNCHANGED <<ddvars, gvars, touch, matching, props, viewer, savedImageIds, saving, started, abortControllerRef, aborted, hasCleanup>>

\* process(): the search answers `data`; normalize, deduplicate, sort, show,
\* switch to the video tab when only videos were found; finally.  The locals
\* of a finished run are gone, so its savedIdsSet is emptied
SearchResolveWith(c, data) ==
    /\ runs[c].stage = "search"
    /\ c \notin aborted
    /\ IF ResponseThrows(data, runs[c].savedIdsSet)
       THEN \* catch: the error toast, setLoading(false)
            /\ loading' = FALSE
            /\ toast' = "error"
            /\ UNCHANGED <<results, activeMediaType>>
       ELSE LET acc == ResultsLoop(EmptyAcc, data, runs[c].savedIdsSet)
                finalResults == SortBySimilarity(acc.processedImages \o acc.uniqueVideos)
            IN  /\ results' = finalResults
                /\ loading' = FALSE
                /\ activeMediaType' = IF acc.processedImages = <<>> /\ acc.uniqueVideos # <<>>
                                      THEN "video" ELSE activeMediaType
                /\ toast' = "none"
    /\ processingRef' = NoFile
    /\ runs' = [runs EXCEPT ![c] = [stage |-> "done", savedIdsSet |-> {}]]
    /\ UNCHANGED <<ddvars, gvars, touch, matching, props, viewer, savedImageIds, saving, started, abortControllerRef, aborted, hasCleanup>>

\* the backend answers with its matching records
SearchResolve(c) == SearchResolveWith(c, Pick(Database, matching))

\* process(): the fetch of an aborted controller rejects with AbortError
SearchAborted(c) ==
    /\ runs[c].stage = "search"
    /\ c \in aborted
    /\ processingRef' = NoFile
    /\ runs' = [runs EXCEPT ![c] = [stage |-> "done", savedIdsSet |-> {}]]
    /\ toast' = "none"
    /\ UNCHANGED <<ddvars, gvars, touch, matching, props, loading, results, viewer, savedImageIds, activeMediaType, saving, started,
                   abortControllerRef, aborted, hasCleanup>>

\* process(): the search fails with another error; toast, setLoading(false)
SearchFail(c) ==
    /\ runs[c].stage = "search"
    /\ c \notin aborted
    /\ loading' = FALSE
    /\ processingRef' = NoFile
    /\ runs' = [runs EXCEPT ![c] = [stage |-> "done", savedIdsSet |-> {}]]
    /\ toast' = "error"
    /\ UNCHANGED <<ddvars, gvars, touch, matching, props, results, viewer, savedImageIds, activeMediaType, saving, started,
                   abortControllerRef, aborted, hasCleanup>>

\* "If in fullscreen mode, navigate to next image or close": the viewer
\* after the removal, from the values the handler sees
AfterRemoval(newResults, mediaType, index, now) ==
    LET currentFiltered == FilterByType(newResults, mediaType) IN
    IF currentFiltered = <<>>
    THEN [selectedImage |-> NoPhoto, viewerMode |-> "info", currentImageIndex |-> now]
    ELSE LET currentIndex == Min(index, Len(currentFiltered) - 1) IN
         [selectedImage |-> currentFiltered[currentIndex + 1], viewerMode |-> "fullscreen",
          currentImageIndex |-> currentIndex]

\* handleSave after the await: cl holds what the handler closed over
SaveBody(cl) ==
    /\ savedImageIds' = savedImageIds \cup {cl.id}
    /\ toast' = "success"
    /\ LET newResults == WithoutId(cl.results, cl.id) IN
       /\ results' = newResults
       /\ IF cl.fromFullscreen /\ cl.selectedId = cl.id
          THEN LET v == AfterRemoval(newResults, cl.activeMediaType, cl.currentImageIndex,
                                     currentImageIndex)
               IN  /\ selectedImage' = v.selectedImage
                   /\ viewerMode' = IF v.selectedImage = NoPhoto THEN "info" ELSE viewerMode
                   /\ currentImageIndex' = v.currentImageIndex
          ELSE UNCHANGED viewer

\* what a run of handleSave closes over; selectedImage, currentImageIndex and
\* activeMediaType are read on the fullscreen path only
Closure(id, fromFullscreen) ==
    [id |-> id, fromFullscreen |-> fromFullscreen, results |-> results,
     selectedId |-> IF fromFullscreen THEN selectedImage.id ELSE 0,
     currentImageIndex |-> IF fromFullscreen THEN currentImageIndex ELSE 0,
     activeMediaType |-> IF fromFullscreen THEN activeMediaType ELSE "image"]

\* a save without a token is done at once; with one, fewer than n saves are
\* awaiting saveToGallery and fewer than m requests were started: the part of
\* the behaviours that is followed
SavesBelow(n, m) == token = NoToken \/ (Cardinality(saves) < n /\ started < m)

\* handleSave(id, fromFullscreen) up to its await (none without a token)
handleSave(id, fromFullscreen) ==
    /\ \E i \in 1..Len(results) : results[i].id = id
    /\ IF token # NoToken
       THEN /\ saves' = saves \cup {Closure(id, fromFullscreen)}
            /\ saveRequests' = saveRequests (+) SetToBag({id})
            /\ started' = started + 1
            /\ toast' = "none"
            /\ UNCHANGED <<results, viewer, savedImageIds>>
       ELSE /\ SaveBody(Closure(id, fromFullscreen))
            /\ UNCHANGED <<saves, started, saveRequests>>
    /\ UNCHANGED <<ddvars, gvars, touch, matching, props, loading, activeMediaType, search>>

\* saveToGallery resolves; onSave(photo) is App's handleSavePhoto, which
\* calls saveToGallery for the photo again when there is an authToken
SaveResolve(cl) ==
    /\ cl \in saves
    /\ saves' = saves \ {cl}
    /\ saveRequests' = saveRequests (+) SetToBag({cl.id})
    /\ SaveBody(cl)
    /\ UNCHANGED <<ddvars, gvars, touch, matching, props, loading, activeMediaType, search, started>>

\* saveToGallery throws: a toast, nothing else
SaveFail(cl) ==
    /\ cl \in saves
    /\ saves' = saves \ {cl}
    /\ toast' = "error"
    /\ UNCHANGED saveRequests
    /\ UNCHANGED <<ddvars, gvars, touch, matching, props, loading, results, viewer, savedImageIds,
                   activeMediaType, search, started>>

handleReject(id, fromFullscreen) ==
    /\ LET newResults == WithoutId(results, id) IN
       /\ results' = newResults
       /\ IF fromFullscreen /\ selectedImage.id = id
          THEN LET v == AfterRemoval(newResults, activeMediaType, currentImageIndex,
                                     currentImageIndex)
               IN  /\ selectedImage' = v.selectedImage
                   /\ viewerMode' = IF v.selectedImage = NoPhoto THEN "info" ELSE viewerMode
                   /\ currentImageIndex' = v.currentImageIndex
          ELSE IF selectedImage.id = id
               THEN selectedImage' = NoPhoto /\ viewerMode' = "info"
                    /\ UNCHANGED currentImageIndex
               ELSE UNCHANGED viewer
    /\ toast' = "none"
    /\ UNCHANGED <<ddvars, gvars, touch, matching, props, loading, savedImageIds, activeMediaType, search, saving, started>>

openFullscreenViewer(image) ==
    /\ currentImageIndex' = OpenIndex(filteredResults, image.id)
    /\ selectedImage' = image
    /\ viewerMode' = "fullscreen"
    /\ toast' = "none"
    /\ UNCHANGED <<ddvars, gvars, touch, matching, props, loading, results, savedImageIds, activeMediaType, search, saving, started>>

\* a handler that returns at once: nothing is set, nothing is notified
ResultsIdle ==
    /\ toast' = "none"
    /\ UNCHANGED <<ddvars, gvars, touch, matching, props, loading, results, viewer, savedImageIds,
                   activeMediaType, search, saving, started>>

\* the updater of setCurrentImageIndex that stops at the ends instead of
\* wrapping around
NewIndexClamped(direction, prevIndex, n) ==
    IF direction = "next"
    THEN Min(prevIndex + 1, n - 1)
    ELSE IF prevIndex = 0 THEN 0 ELSE Min(prevIndex - 1, n - 1)

\* the updater of setCurrentImageIndex in navigateImage, on a list of n items
NewIndex(direction, prevIndex, n) ==
    IF direction = "next"
    THEN (prevIndex + 1) % n
    ELSE (prevIndex - 1 + n) % n

navigateImage(direction) ==
    /\ IF filteredResults = <<>>
       THEN UNCHANGED <<selectedImage, currentImageIndex>>
       ELSE LET newIndex == NewIndex(direction, currentImageIndex, Len(filteredResults))
            IN  /\ selectedImage' = filteredResults[newIndex + 1]
                /\ currentImageIndex' = newIndex
    /\ toast' = "none"
    /\ UNCHANGED <<ddvars, gvars, touch, matching, props, loading, results, viewerMode, savedImageIds, activeMediaType,
                   search, saving, started>>

\* a close that only left the fullscreen mode and kept the record selected
CloseViewerKeepsRecord ==
    /\ viewerMode' = "info"
    /\ toast' = "none"
    /\ UNCHANGED <<ddvars, gvars, touch, matching, props, loading, results, selectedImage, currentImageIndex,
                   savedImageIds, activeMediaType, search, saving, started>>

\* setSelectedImage(null); setViewerMode('info')
CloseViewer ==
    /\ selectedImage' = NoPhoto
    /\ viewerMode' = "info"
    /\ toast' = "none"
    /\ UNCHANGED <<ddvars, gvars, touch, matching, props, loading, results, currentImageIndex, savedImageIds, activeMediaType,
                   search, saving, started>>

(* what the user can do *)

\* a card of the grid is clicked
CardClick(i) == GridShown /\ i \in 1..Len(filteredResults) /\ openFullscreenViewer(filteredResults[i])

\* the Info button of a card
InfoClick(i) ==
    /\ GridShown /\ i \in 1..Len(filteredResults)
    /\ selectedImage' = filteredResults[i]
    /\ viewerMode' = "info"
    /\ toast' = "none"
    /\ UNCHANGED <<ddvars, gvars, touch, matching, props, loading, results, currentImageIndex, savedImageIds, activeMediaType,
                   search, saving, started>>

\* the reject and accept buttons of a card
CardReject(i) == GridShown /\ i \in 1..Len(filteredResults) /\ handleReject(filteredResults[i].id, FALSE)

CardSave(i) == GridShown /\ i \in 1..Len(filteredResults) /\ handleSave(filteredResults[i].id, FALSE)

\* the reject and accept buttons of the fullscreen viewer
ViewerReject == FullscreenOpen /\ handleReject(selectedImage.id, TRUE)

ViewerSave == FullscreenOpen /\ handleSave(selectedImage.id, TRUE)

\* the previous/next buttons are rendered when there is more than one item
NavButton(direction) == FullscreenOpen /\ Len(filteredResults) > 1 /\ navigateImage(direction)

\* a handleKeyDown without its guard on the open viewer
KeyDownUnguarded(key) ==
    CASE key = "ArrowLeft" -> navigateImage("prev")
      [] key = "ArrowRight" -> navigateImage("next")
      [] key = "Escape" -> CloseViewer

\* a key is pressed.  handleKeyDown: the listener is there while viewerMode
\* is 'fullscreen', and returns at once when no record is selected
KeyDown(key) ==
    IF viewerMode = "fullscreen" /\ selectedImage # NoPhoto
    THEN CASE key = "ArrowLeft" -> navigateImage("prev")
           [] key = "ArrowRight" -> navigateImage("next")
           [] key = "Escape" -> CloseViewer
    ELSE ResultsIdle

\* the close button of the viewer; the backdrop and the X of the info modal
CloseClick == (FullscreenOpen \/ InfoOpen) /\ CloseViewer

\* a timestamp button of the info modal
TimestampJump(k) ==
    /\ InfoOpen
    /\ selectedImage.media_type = "video"
    /\ k \in 1..Len(selectedImage.timestamps)
    /\ selectedImage' = [selectedImage EXCEPT !.timestamp = selectedImage.timestamps[k]]
    /\ viewerMode' = "fullscreen"
    /\ toast' = "none"
    /\ UNCHANGED <<ddvars, gvars, touch, matching, props, loading, results, currentImageIndex, savedImageIds, activeMediaType,
                   search, saving, started>>

\* the x coordinates a finger is put down at, moved to and lifted from
Coords == {0, 10, 60, 120}

\* handleTouchStart, on the fullscreen viewer
handleTouchStart(x) ==
    /\ FullscreenOpen
    /\ touchEnd' = Absent
    /\ touchStart' = x
    /\ toast' = "none"
    /\ UNCHANGED <<ddvars, gvars, matching, props, loading, results, viewer, savedImageIds,
                   activeMediaType, search, saving, started>>

\* handleTouchMove; the finger was put down on the viewer before
handleTouchMove(x) ==
    /\ FullscreenOpen
    /\ touchStart # Absent
    /\ touchEnd' = x
    /\ toast' = "none"
    /\ UNCHANGED <<ddvars, gvars, matching, props, loading, results, viewer, savedImageIds,
                   activeMediaType, search, saving, started, touchStart>>

\* !touchStart || !touchEnd: null and 0 are both falsy
Falsy(x) == x = Absent \/ x = 0

\* handleTouchEnd
handleTouchEnd ==
    /\ FullscreenOpen
    /\ touchStart # Absent
    /\ IF Falsy(touchStart) \/ Falsy(touchEnd)
       THEN ResultsIdle
       ELSE LET distance == touchStart - touchEnd IN
            IF distance > 50 THEN navigateImage("next")
            ELSE IF distance < 0 - 50 THEN navigateImage("prev")
            ELSE ResultsIdle

\* a tab button that narrowed the list itself to the chosen type
TabClickNarrowing(type) ==
    /\ GridShown
    /\ activeMediaType' = type
    /\ results' = FilterByType(results, type)
    /\ toast' = "none"
    /\ UNCHANGED <<ddvars, gvars, touch, matching, props, loading, viewer, savedImageIds, search, saving, started>>

\* a tab button
TabClick(type) ==
    /\ GridShown
    /\ activeMediaType' = type
    /\ toast' = "none"
    /\ UNCHANGED <<ddvars, gvars, touch, matching, props, loading, results, viewer, savedImageIds, search, saving, started>>

ResultsNext ==
    \/ \E file \in Files \cup {NoFile}, tok \in Tokens \cup {NoToken} : PropsChange(file, tok) /\ lastInput' = "props"
    \/ \E c \in 1..Len(runs) : \E ids \in SavedChoices : SavedIdsResolve(c, ids) /\ lastInput' = "savedIds"
    \/ \E c \in 1..Len(runs) : SavedIdsFail(c) /\ lastInput' = "savedIdsFail"
    \/ \E c \in 1..Len(runs) : SearchResolve(c) /\ lastInput' = "search"
    \/ \E c \in 1..Len(runs) : SearchAborted(c) /\ lastInput' = "searchAborted"
    \/ \E c \in 1..Len(runs) : SearchFail(c) /\ lastInput' = "searchFail"
    \/ \E i \in 1..Len(filteredResults) : CardClick(i) /\ lastInput' = "card"
    \/ \E i \in 1..Len(filteredResults) : InfoClick(i) /\ lastInput' = "info"
    \/ \E i \in 1..Len(filteredResults) : CardReject(i) /\ lastInput' = "cardReject"
    \/ \E i \in 1..Len(filteredResults) : SavesBelow(MaxPendingSaves, MaxRequests) /\ CardSave(i) /\ lastInput' = "cardSave"
    \/ ViewerReject /\ lastInput' = "reject"
    \/ SavesBelow(MaxPendingSaves, MaxRequests) /\ ViewerSave /\ lastInput' = "save"
    \/ \E d \in {"prev", "next"} : NavButton(d) /\ lastInput' = d
    \/ \E key \in {"ArrowLeft", "ArrowRight", "Escape"} : KeyDown(key) /\ lastInput' = key
    \/ CloseClick /\ lastInput' = "close"
    \/ \E k \in 1..Len(selectedImage.timestamps) : TimestampJump(k) /\ lastInput' = "timestamp"
    \/ \E type \in {"image", "video"} : TabClick(type) /\ lastInput' = "tab"
    \/ \E cl \in saves : SaveResolve(cl) /\ lastInput' = "saved"
    \/ \E cl \in saves : SaveFail(cl) /\ lastInput' = "saveFail"

SpecResults == ResultsInit /\ [][ResultsNext]_vars

-----------------------------------------------------------------------------
(* The Gallery component *)

\* finalItems.sort((a, b) => parseInt(b.id) - parseInt(a.id)): stable, descending
RECURSIVE InsertByIdDesc(_, _)
InsertByIdDesc(s, x) ==
    IF s = <<>> THEN <<x>>
    ELSE IF x.id > Head(s).id THEN <<x>> \o s
    ELSE <<Head(s)>> \o InsertByIdDesc(Tail(s), x)

RECURSIVE SortByIdDesc(_)
SortByIdDesc(s) ==
    IF s = <<>> THEN <<>>
    ELSE InsertByIdDesc(SortByIdDesc(SubSeq(s, 1, Len(s) - 1)), s[Len(s)])

\* list.filter(item => item.type === mediaType)
FilterByItemType(list, mediaType) == SelectSeq(list, LAMBDA item : item.type = mediaType)

filteredItems == FilterByItemType(g_items, g_activeMediaType)

\* the loading screen replaces the whole view; the viewer covers the grid
\* and the tabs (fixed inset-0)
GalleryGridShown == ~g_loading /\ g_selectedImage = NoPhoto

GalleryViewerOpen == ~g_loading /\ g_selectedImage # NoPhoto

\* the component is mounted with a token; its effect has called loadGallery,
\* which awaits getGalleryImages
GalleryInit ==
    /\ dd_input = <<>> /\ dd_saved = {} /\ dd_view = "none"
    /\ dd_runs = 0 /\ dd_first = <<>> /\ dd_output = <<>>
    /\ ResultsUnused
    /\ mounted = "Gallery"
    /\ GalleryConstructed
    /\ \E S \in SUBSET (1..Len(Database)) :
          /\ Cardinality(S) <= MaxResponse
          /\ matching = S

\* a handler that returns at once
GalleryIdle ==
    /\ toast' = "none"
    /\ UNCHANGED <<ddvars, matching, props, loading, results, viewer, savedImageIds,
                   activeMediaType, search, saving, started, touch, gvars>>

\* loadGallery after its await: deduplicate, sort, setItems; finally
GalleryLoaded ==
    /\ g_loading
    /\ ~ResponseThrows(Pick(Database, matching), {})
    /\ g_items' = SortByIdDesc(GalleryDedup(getGalleryImages(Pick(Database, matching))))
    /\ g_loading' = FALSE
    /\ toast' = "none"
    /\ UNCHANGED <<ddvars, matching, props, loading, results, viewer, savedImageIds,
                   activeMediaType, search, saving, started, touch,
                   g_activeMediaType, g_viewer, g_touch, g_deletes>>

\* loadGallery: getGalleryImages throws (the request fails, or getImageUrl
\* is handed a record without a path); catch logs it; finally
GalleryLoadFail ==
    /\ g_loading
    /\ g_loading' = FALSE
    /\ toast' = "none"
    /\ UNCHANGED <<ddvars, matching, props, loading, results, viewer, savedImageIds,
                   activeMediaType, search, saving, started, touch,
                   g_items, g_activeMediaType, g_viewer, g_touch, g_deletes>>

openImageViewer(image) ==
    /\ g_currentImageIndex' = OpenIndex(filteredItems, image.id)
    /\ g_selectedImage' = image
    /\ g_isZoomed' = FALSE
    /\ toast' = "none"
    /\ UNCHANGED <<ddvars, matching, props, loading, results, viewer, savedImageIds,
                   activeMediaType, search, saving, started, touch,
                   g_loading, g_items, g_activeMediaType, g_touch, g_deletes>>

GalleryNavigateImage(direction) ==
    /\ IF filteredItems = <<>>
       THEN UNCHANGED g_viewer
       ELSE LET newIndex == NewIndex(direction, g_currentImageIndex, Len(filteredItems))
            IN  /\ g_selectedImage' = filteredItems[newIndex + 1]
                /\ g_isZoomed' = FALSE
                /\ g_currentImageIndex' = newIndex
    /\ toast' = "none"
    /\ UNCHANGED <<ddvars, matching, props, loading, results, viewer, savedImageIds,
                   activeMediaType, search, saving, started, touch,
                   g_loading, g_items, g_activeMediaType, g_touch, g_deletes>>

\* setSelectedImage(null); setIsZoomed(false)
GalleryCloseViewer ==
    /\ g_selectedImage' = NoPhoto
    /\ g_isZoomed' = FALSE
    /\ toast' = "none"
    /\ UNCHANGED <<ddvars, matching, props, loading, results, viewer, savedImageIds,
                   activeMediaType, search, saving, started, touch,
                   g_loading, g_items, g_activeMediaType, g_currentImageIndex, g_touch, g_deletes>>

handleZoom ==
    /\ IF g_selectedImage.type = "video"
       THEN UNCHANGED g_isZoomed
       ELSE g_isZoomed' = ~g_isZoomed
    /\ toast' = "none"
    /\ UNCHANGED <<ddvars, matching, props, loading, results, viewer, savedImageIds,
                   activeMediaType, search, saving, started, touch,
                   g_loading, g_items, g_activeMediaType, g_selectedImage, g_currentImageIndex,
                   g_touch, g_deletes>>

(* what the user can do in the Gallery *)

\* a card (or its play overlay) of the grid is clicked
GalleryCardClick(i) ==
    GalleryGridShown /\ i \in 1..Len(filteredItems) /\ openImageViewer(filteredItems[i])

\* the previous/next buttons: rendered for more than one item, not zoomed
GalleryNavButton(direction) ==
    /\ GalleryViewerOpen /\ Len(filteredItems) > 1 /\ ~g_isZoomed
    /\ GalleryNavigateImage(direction)

\* the image itself, or the Zoom button shown for images
ZoomClick == GalleryViewerOpen /\ g_selectedImage.type # "video" /\ handleZoom

\* a key is pressed.  handleKeyDown: the listener is there while a record is
\* selected
GalleryKeyDown(key) ==
    IF g_selectedImage # NoPhoto
    THEN CASE key = "ArrowLeft" -> GalleryNavigateImage("prev")
           [] key = "ArrowRight" -> GalleryNavigateImage("next")
           [] key = "Escape" -> GalleryCloseViewer
    ELSE GalleryIdle

GalleryCloseClick == GalleryViewerOpen /\ GalleryCloseViewer

GalleryTabClick(type) ==
    /\ GalleryGridShown
    /\ g_activeMediaType' = type
    /\ toast' = "none"
    /\ UNCHANGED <<ddvars, matching, props, loading, results, viewer, savedImageIds,
                   activeMediaType, search, saving, started, touch,
                   g_loading, g_items, g_viewer, g_touch, g_deletes>>

\* handleTouchStart, on the viewer
GalleryTouchStart(x) ==
    /\ GalleryViewerOpen
    /\ IF g_isZoomed
       THEN UNCHANGED g_touch
       ELSE g_touchEnd' = Absent /\ g_touchStart' = x
    /\ toast' = "none"
    /\ UNCHANGED <<ddvars, matching, props, loading, results, viewer, savedImageIds,
                   activeMediaType, search, saving, started, touch,
                   g_loading, g_items, g_activeMediaType, g_viewer, g_deletes>>

\* handleTouchMove; the finger was put down on the viewer before
GalleryTouchMove(x) ==
    /\ GalleryViewerOpen
    /\ IF g_isZoomed
       THEN UNCHANGED g_touchEnd
       ELSE g_touchEnd' = x
    /\ toast' = "none"
    /\ UNCHANGED <<ddvars, matching, props, loading, results, viewer, savedImageIds,
                   activeMediaType, search, saving, started, touch,
                   g_loading, g_items, g_activeMediaType, g_viewer, g_touchStart, g_deletes>>

\* a handleTouchEnd without the isZoomed guard
GalleryTouchEndZoomed ==
    /\ GalleryViewerOpen
    /\ IF Falsy(g_touchStart) \/ Falsy(g_touchEnd)
       THEN GalleryIdle
       ELSE LET distance == g_touchStart - g_touchEnd IN
            IF distance > 50 THEN GalleryNavigateImage("next")
            ELSE IF distance < 0 - 50 THEN GalleryNavigateImage("prev")
            ELSE GalleryIdle

\* handleTouchEnd
GalleryTouchEnd ==
    /\ GalleryViewerOpen
    /\ IF g_isZoomed \/ Falsy(g_touchStart) \/ Falsy(g_touchEnd)
       THEN GalleryIdle
       ELSE LET distance == g_touchStart - g_touchEnd IN
            IF distance > 50 THEN GalleryNavigateImage("next")
            ELSE IF distance < 0 - 50 THEN GalleryNavigateImage("prev")
            ELSE GalleryIdle

\* fewer than n deletes are awaiting deleteFromGallery and fewer than m
\* requests were started: the part of the behaviours that is followed
DeletesBelow(n, m) == Cardinality(g_deletes) < n /\ started < m

\* what a run of handleDelete closes over
DeleteClosure(id) ==
    [id |-> id, items |-> g_items, selectedId |-> g_selectedImage.id,
     currentImageIndex |-> g_currentImageIndex, activeMediaType |-> g_activeMediaType]

\* handleDelete(id) up to its await
handleDelete(id) ==
    /\ g_deletes' = g_deletes \cup {DeleteClosure(id)}
    /\ started' = started + 1
    /\ toast' = "none"
    /\ UNCHANGED <<ddvars, matching, props, loading, results, viewer, savedImageIds,
                   activeMediaType, search, saving, touch,
                   g_loading, g_items, g_activeMediaType, g_viewer, g_touch>>

\* the Delete button of the viewer
DeleteClick == GalleryViewerOpen /\ handleDelete(g_selectedImage.id)

\* deleteFromGallery resolves: the rest of handleDelete, with what it closed over
DeleteResolve(cl) ==
    /\ cl \in g_deletes
    /\ g_deletes' = g_deletes \ {cl}
    /\ LET newItems == WithoutId(cl.items, cl.id) IN
       /\ g_items' = newItems
       /\ IF cl.selectedId = cl.id
          THEN LET currentFiltered == FilterByItemType(newItems, cl.activeMediaType) IN
               IF currentFiltered = <<>>
               THEN g_selectedImage' = NoPhoto /\ UNCHANGED g_currentImageIndex
               ELSE LET newIndex == Min(cl.currentImageIndex, Len(currentFiltered) - 1) IN
                    /\ g_currentImageIndex' = newIndex
                    /\ g_selectedImage' = currentFiltered[newIndex + 1]
          ELSE UNCHANGED <<g_selectedImage, g_currentImageIndex>>
    /\ toast' = "success"
    /\ UNCHANGED <<ddvars, matching, props, loading, results, viewer, savedImageIds,
                   activeMediaType, search, saving, started, touch,
                   g_loading, g_activeMediaType, g_isZoomed, g_touch>>

\* a handleDelete that removed the record before its await and did not put it
\* back in the catch
DeleteFailOptimistic(cl) ==
    /\ cl \in g_deletes
    /\ g_deletes' = g_deletes \ {cl}
    /\ g_items' = WithoutId(g_items, cl.id)
    /\ toast' = "error"
    /\ UNCHANGED <<ddvars, matching, props, loading, results, viewer, savedImageIds,
                   activeMediaType, search, saving, started, touch,
                   g_loading, g_activeMediaType, g_viewer, g_touch>>

\* deleteFromGallery throws: the catch raises the error toast
DeleteFail(cl) ==
    /\ cl \in g_deletes
    /\ g_deletes' = g_deletes \ {cl}
    /\ toast' = "error"
    /\ UNCHANGED <<ddvars, matching, props, loading, results, viewer, savedImageIds,
                   activeMediaType, search, saving, started, touch,
                   g_loading, g_items, g_activeMediaType, g_viewer, g_touch>>

\* the Gallery with its remote calls
GalleryNext ==
    \/ GalleryLoaded /\ lastInput' = "loaded"
    \/ GalleryLoadFail /\ lastInput' = "loadFail"
    \/ \E i \in 1..Len(filteredItems) : GalleryCardClick(i) /\ lastInput' = "card"
    \/ \E d \in {"prev", "next"} : GalleryNavButton(d) /\ lastInput' = d
    \/ ZoomClick /\ lastInput' = "zoom"
    \/ \E key \in {"ArrowLeft", "ArrowRight", "Escape"} : GalleryKeyDown(key) /\ lastInput' = key
    \/ GalleryCloseClick /\ lastInput' = "close"
    \/ \E type \in {"image", "video"} : GalleryTabClick(type) /\ lastInput' = "tab"
    \/ \E x \in Coords : GalleryTouchStart(x) /\ lastInput' = "touchstart"
    \/ \E x \in Coords : GalleryTouchMove(x) /\ lastInput' = "touchmove"
    \/ GalleryTouchEnd /\ lastInput' = "touchend"
    \/ DeletesBelow(MaxPendingSaves, MaxRequests) /\ DeleteClick /\ lastInput' = "delete"
    \/ \E cl \in g_deletes : DeleteResolve(cl) /\ lastInput' = "deleted"
    \/ \E cl \in g_deletes : DeleteFail(cl) /\ lastInput' = "deleteFail"

SpecGallery == GalleryInit /\ [][GalleryNext]_vars

\* the Gallery of a user who deletes one record after the other without
\* waiting for the answers (and does not touch the screen with a swipe)
DeletesNext ==
    \/ GalleryLoaded /\ lastInput' = "loaded"
    \/ GalleryLoadFail /\ lastInput' = "loadFail"
    \/ \E i \in 1..Len(filteredItems) : GalleryCardClick(i) /\ lastInput' = "card"
    \/ \E d \in {"prev", "next"} : GalleryNavButton(d) /\ lastInput' = d
    \/ GalleryCloseClick /\ lastInput' = "close"
    \/ \E type \in {"image", "video"} : GalleryTabClick(type) /\ lastInput' = "tab"
    \/ DeletesBelow(MaxPendingDeletes, MaxDeletes) /\ DeleteClick /\ lastInput' = "delete"
    \/ \E cl \in g_deletes : DeleteResolve(cl) /\ lastInput' = "deleted"
    \/ \E cl \in g_deletes : DeleteFail(cl) /\ lastInput' = "deleteFail"

SpecDeletes == GalleryInit /\ [][DeletesNext]_vars

-----------------------------------------------------------------------------
(* The two viewers under the hands of the user: the Gallery as above, and   *)
(* the Results view of a visitor without a token, whose props stay as they  *)
(* are: one search, every save done at once, and the touch gestures.        *)

ViewerResultsInit == ResultsInit /\ sourceFile \in Files /\ token = NoToken

ViewerResultsNext ==
    \/ \E c \in 1..Len(runs) : SearchResolve(c) /\ lastInput' = "search"
    \/ \E c \in 1..Len(runs) : SearchFail(c) /\ lastInput' = "searchFail"
    \/ \E i \in 1..Len(filteredResults) : CardClick(i) /\ lastInput' = "card"
    \/ \E i \in 1..Len(filteredResults) : InfoClick(i) /\ lastInput' = "info"
    \/ \E i \in 1..Len(filteredResults) : CardReject(i) /\ lastInput' = "cardReject"
    \/ \E i \in 1..Len(filteredResults) : SavesBelow(MaxPendingSaves, MaxRequests) /\ CardSave(i) /\ lastInput' = "cardSave"
    \/ ViewerReject /\ lastInput' = "reject"
    \/ SavesBelow(MaxPendingSaves, MaxRequests) /\ ViewerSave /\ lastInput' = "save"
    \/ \E d \in {"prev", "next"} : NavButton(d) /\ lastInput' = d
    \/ \E key \in {"ArrowLeft", "ArrowRight", "Escape"} : KeyDown(key) /\ lastInput' = key
    \/ CloseClick /\ lastInput' = "close"
    \/ \E k \in 1..Len(selectedImage.timestamps) : TimestampJump(k) /\ lastInput' = "timestamp"
    \/ \E type \in {"image", "video"} : TabClick(type) /\ lastInput' = "tab"
    \/ \E x \in Coords : handleTouchStart(x) /\ lastInput' = "touchstart"
    \/ \E x \in Coords : handleTouchMove(x) /\ lastInput' = "touchmove"
    \/ handleTouchEnd /\ lastInput' = "touchend"

ViewerInit == ViewerResultsInit \/ GalleryInit

ViewerNext ==
    \/ mounted = "Results" /\ ViewerResultsNext
    \/ mounted = "Gallery" /\ GalleryNext

SpecViewer == ViewerInit /\ [][ViewerNext]_vars

-----------------------------------------------------------------------------
(* Results of a signed-in user after one search: every save awaits          *)
(* saveToGallery, and the user goes on while it is pending                  *)

\* savedIds is not read when there is a token
SavesInit ==
    ResultsMounted(MaxShown) /\ sourceFile \in Files /\ token \in Tokens /\ propSavedIds = {}

SavesNext ==
    \/ \E c \in 1..Len(runs) : \E ids \in SavedChoices : SavedIdsResolve(c, ids) /\ lastInput' = "savedIds"
    \/ \E c \in 1..Len(runs) : SavedIdsFail(c) /\ lastInput' = "savedIdsFail"
    \/ \E c \in 1..Len(runs) : SearchResolve(c) /\ lastInput' = "search"
    \/ \E c \in 1..Len(runs) : SearchFail(c) /\ lastInput' = "searchFail"
    \/ \E i \in 1..Len(filteredResults) : CardClick(i) /\ lastInput' = "card"
    \/ \E i \in 1..Len(filteredResults) : CardReject(i) /\ lastInput' = "cardReject"
    \/ \E i \in 1..Len(filteredResults) : SavesBelow(MaxPendingSaves, MaxRequests) /\ CardSave(i) /\ lastInput' = "cardSave"
    \/ ViewerReject /\ lastInput' = "reject"
    \/ SavesBelow(MaxPendingSaves, MaxRequests) /\ ViewerSave /\ lastInput' = "save"
    \/ \E d \in {"prev", "next"} : NavButton(d) /\ lastInput' = d
    \/ CloseClick /\ lastInput' = "close"
    \/ \E type \in {"image", "video"} : TabClick(type) /\ lastInput' = "tab"
    \/ \E cl \in saves : SaveResolve(cl) /\ lastInput' = "saved"
    \/ \E cl \in saves : SaveFail(cl) /\ lastInput' = "saveFail"

SpecSaves == SavesInit /\ [][SavesNext]_vars

\* the same user accepting one card after the other without waiting for the
\* answers
OverlapInit ==
    ResultsMounted(MaxResponse) /\ sourceFile \in Files /\ token \in Tokens /\ propSavedIds = {}

OverlapNext ==
    \/ \E c \in 1..Len(runs) : \E ids \in SavedChoices : SavedIdsResolve(c, ids) /\ lastInput' = "savedIds"
    \/ \E c \in 1..Len(runs) : SavedIdsFail(c) /\ lastInput' = "savedIdsFail"
    \/ \E c \in 1..Len(runs) : SearchResolve(c) /\ lastInput' = "search"
    \/ \E c \in 1..Len(runs) : SearchFail(c) /\ lastInput' = "searchFail"
    \/ \E i \in 1..Len(filteredResults) :
          SavesBelow(MaxOverlappingSaves, MaxOverlappingSaves) /\ CardSave(i) /\ lastInput' = "cardSave"
    \/ \E type \in {"image", "video"} : TabClick(type) /\ lastInput' = "tab"
    \/ \E cl \in saves : SaveResolve(cl) /\ lastInput' = "saved"
    \/ \E cl \in saves : SaveFail(cl) /\ lastInput' = "saveFail"

SpecOverlap == OverlapInit /\ [][OverlapNext]_vars

-----------------------------------------------------------------------------
(* Results under a parent that changes the file and the token and unmounts  *)
(* the page while searches are in flight; the user only watches             *)

\* the component is unmounted: the cleanup of the last effect runs
Unmount ==
    /\ mounted = "Results"
    /\ mounted' = "none"
    /\ LET c == EffectCleanup(processingRef, abortControllerRef, aborted, hasCleanup)
       IN  /\ processingRef' = c.processingRef
           /\ aborted' = c.aborted
    /\ toast' = "none"
    /\ UNCHANGED <<ddvars, gvars, touch, matching, sourceFile, token, propSavedIds, loading, results,
                   viewer, savedImageIds, activeMediaType, saving, started,
                   abortControllerRef, hasCleanup, runs>>

\* React drops the state updates of an unmounted component; the rejection of
\* an aborted fetch touches the refs only
SearchesNext ==
    \/ /\ mounted = "Results"
       /\ \/ \E file \in Files \cup {NoFile}, tok \in Tokens \cup {NoToken} :
                PropsChange(file, tok) /\ lastInput' = "props"
          \/ \E c \in 1..Len(runs) : \E ids \in SavedChoices :
                SavedIdsResolve(c, ids) /\ lastInput' = "savedIds"
          \/ \E c \in 1..Len(runs) : SavedIdsFail(c) /\ lastInput' = "savedIdsFail"
          \/ \E c \in 1..Len(runs) : SearchResolve(c) /\ lastInput' = "search"
          \/ \E c \in 1..Len(runs) : SearchFail(c) /\ lastInput' = "searchFail"
          \/ \E type \in {"image", "video"} : TabClick(type) /\ lastInput' = "tab"
          \/ Unmount /\ lastInput' = "unmount"
    \/ \E c \in 1..Len(runs) : SearchAborted(c) /\ lastInput' = "searchAborted"

SpecSearches == ResultsInit /\ [][SearchesNext]_vars

(* ------------------------------------------------------------------ *)
(* The viewer of the Results view                                      *)
(* ------------------------------------------------------------------ *)

\* C1: whenever the fullscreen viewer is open the current index i satisfies
\* 0 <= i < length(filteredList); when no viewer is shown no record is
\* selected
C1_IndexInRange ==
    /\ FullscreenOpen =>
          0 <= currentImageIndex /\ currentImageIndex < Len(filteredResults)
    /\ (~loading /\ ~FullscreenOpen /\ ~InfoOpen) => selectedImage = NoPhoto

\* the search of run c finds videos only, so process() switches the tab
OnlyVideosFound(c) ==
    LET acc == ResultsLoop(EmptyAcc, Pick(Database, matching), runs[c].savedIdsSet)
    IN  /\ ~ResponseThrows(Pick(Database, matching), runs[c].savedIdsSet)
        /\ acc.processedImages = <<>> /\ acc.uniqueVideos # <<>>

\* a step of switchFilter: a tab button, or the automatic switch to the
\* video tab at the end of a search
switchFilter ==
    \/ \E type \in {"image", "video"} : TabClick(type)
    \/ \E c \in 1..Len(runs) : OnlyVideosFound(c) /\ SearchResolve(c)

\* C9: switchFilter always leaves the viewer closed: after it no record is
\* open in the fullscreen viewer, from whatever state it was invoked
C9_SwitchLeavesClosed == [][switchFilter => ~FullscreenOpen']_vars

\* a step that removes the record open in the fullscreen viewer from the
\* list: its reject button, its save button (done at once without a token),
\* or the completion of a save of that record
removeCurrent ==
    \/ ViewerReject
    \/ token = NoToken /\ ViewerSave
    \/ \E cl \in saves : FullscreenOpen /\ cl.id = selectedImage.id /\ SaveResolve(cl)

\* C10: when the record open in the fullscreen viewer is saved or rejected,
\* the viewer becomes closed if the recomputed filtered list is empty, and
\* otherwise is open at index min(currentIndex, N-1) of the recomputed
\* list, showing the record now at that index
C10_RemoveCurrentAndAdvance ==
    [][removeCurrent =>
         IF filteredResults' = <<>>
         THEN selectedImage' = NoPhoto
         ELSE /\ FullscreenOpen'
              /\ currentImageIndex' = Min(currentImageIndex, Len(filteredResults') - 1)
              /\ selectedImage' = filteredResults'[currentImageIndex' + 1]]_vars

(* ------------------------------------------------------------------ *)
(* The navigation of the two viewers                                   *)
(* ------------------------------------------------------------------ *)

ArrowKey(direction) == IF direction = "next" THEN "ArrowRight" ELSE "ArrowLeft"

\* the step handles next() or prev() on the open viewer of the Results view:
\* a navigation button, or an arrow key
ResultsNavigates(direction) ==
    /\ mounted = "Results" /\ FullscreenOpen
    /\ lastInput' \in {direction, ArrowKey(direction)}

\* the same in the Gallery
GalleryNavigates(direction) ==
    /\ mounted = "Gallery" /\ GalleryViewerOpen
    /\ lastInput' \in {direction, ArrowKey(direction)}

\* n applications of next() to the index i of a list of N items
RECURSIVE NextTimes(_, _, _)
NextTimes(n, i, N) == IF n = 0 THEN i ELSE NextTimes(n - 1, NewIndex("next", i, N), N)

\* C11: from open(i) on a filtered list of N >= 1 records, next() leads to
\* open((i+1) mod N) and prev() to open((i-1+N) mod N), showing the record
\* at that index; hence N consecutive next() calls return to the starting
\* index and prev() undoes next()
C11_NextPrevCyclic ==
    [][\A d \in {"next", "prev"} :
         /\ (ResultsNavigates(d) /\ filteredResults # <<>>) =>
              LET N == Len(filteredResults)
                  j == IF d = "next" THEN (currentImageIndex + 1) % N
                       ELSE (currentImageIndex - 1 + N) % N
              IN  /\ FullscreenOpen'
                  /\ currentImageIndex' = j
                  /\ selectedImage' = filteredResults[j + 1]
                  /\ \A i \in 0..(N - 1) :
                       /\ NextTimes(N, i, N) = i
                       /\ NewIndex("prev", NewIndex("next", i, N), N) = i
         /\ (GalleryNavigates(d) /\ filteredItems # <<>>) =>
              LET N == Len(filteredItems)
                  j == IF d = "next" THEN (g_currentImageIndex + 1) % N
                       ELSE (g_currentImageIndex - 1 + N) % N
              IN  /\ GalleryViewerOpen'
                  /\ g_currentImageIndex' = j
                  /\ g_selectedImage' = filteredItems[j + 1]
                  /\ \A i \in 0..(N - 1) :
                       /\ NextTimes(N, i, N) = i
                       /\ NewIndex("prev", NewIndex("next", i, N), N) = i]_vars

\* next() has just wrapped around from the last record of a list of two or
\* more to the first, in the Results view
C11_Witness ==
    /\ mounted = "Results"
    /\ lastInput \in {"next", "ArrowRight"}
    /\ FullscreenOpen
    /\ Len(filteredResults) >= 2
    /\ currentImageIndex = 0
    /\ selectedImage = filteredResults[1]

--------------------------------------------------------------------------
(* A cancelled search                                                     *)

\* a step of process() of run c: the position of the run moves
RunSteps(c) == c \in DOMAIN runs /\ runs'[c] # runs[c]

\* C12: once the controller of a run was aborted (a newer search superseded
\* it), no step of that run sets results, loading, savedImageIds or
\* activeMediaType, and the run never normalizes a response
C12_CancelledRunUpdatesNothing ==
    [][\A c \in aborted :
         RunSteps(c) =>
           /\ UNCHANGED <<results, loading, savedImageIds, activeMediaType>>
           /\ lastInput' # "search"]_vars

--------------------------------------------------------------------------
(* A response holding a malformed record                                  *)

HasUrl(raw) == raw.imageUrl # NoUrl

\* C13: when the answer of a search holds a record without URL, that record
\* is skipped: the other records of the answer are normalized, deduplicated
\* and shown, and no error notification is raised
C13_MalformedRecordSkipped ==
    [][\A c \in DOMAIN runs :
         (lastInput' = "search" /\ RunSteps(c)) =>
           LET data == Pick(Database, matching)
               wellFormed == SelectSeq(data, HasUrl)
           IN  /\ results' = SortBySimilarity(ResultsDedup(wellFormed, runs[c].savedIdsSet))
               /\ toast' # "error"]_vars

--------------------------------------------------------------------------
(* A remote delete that fails                                             *)

Ids(list) == {list[k].id : k \in DOMAIN list}

\* the run cl of handleDelete ends in its catch
DeleteFails(cl) == cl \in g_deletes /\ cl \notin g_deletes' /\ lastInput' = "deleteFail"

\* C14 as stated: after a failed remote delete the record is gone from the
\* list (the local removal stays in place) and the error notification is up
C14_FailedDeleteStaysRemoved ==
    [][\A cl \in g_deletes :
         DeleteFails(cl) => cl.id \notin Ids(g_items') /\ toast' = "error"]_vars

\* C14, amended: the record is removed only after the remote delete
\* succeeded, so a failed remote delete leaves the list as it was (the
\* record, if it was in the list, is still in it) and the viewer on the
\* same record, and the error notification is raised
C14_FailedDeleteKeepsRecord ==
    [][\A cl \in g_deletes :
         DeleteFails(cl) =>
           /\ g_items' = g_items
           /\ cl.id \in Ids(g_items) => cl.id \in Ids(g_items')
           /\ UNCHANGED <<g_selectedImage, g_currentImageIndex>>
           /\ toast' = "error"]_vars

C14_Witness ==
    /\ mounted = "Gallery"
    /\ lastInput = "deleteFail"
    /\ toast = "error"
    /\ GalleryViewerOpen
    /\ g_selectedImage.id \in Ids(g_items)

--------------------------------------------------------------------------
(* Opening a viewer on a record                                           *)

\* the first position (from 0) of the record with this id
PositionOf(list, id) ==
    CHOOSE p \in 0..(Len(list) - 1) :
        list[p + 1].id = id /\ \A q \in 0..(p - 1) : list[q + 1].id # id

\* C15: a click on a card opens the viewer on that record, at the index the
\* record's id has in the filtered list at the time of the click; the index
\* computed for an id that is not in the filtered list is 0
C15_OpenAtPosition ==
    [][/\ (mounted = "Results" /\ lastInput' = "card") =>
            /\ FullscreenOpen'
            /\ selectedImage'.id \in Ids(filteredResults)
            /\ currentImageIndex' = PositionOf(filteredResults, selectedImage'.id)
            /\ selectedImage' = filteredResults[currentImageIndex' + 1]
            /\ \A id \in 1..Len(Database) :
                 id \notin Ids(filteredResults) => OpenIndex(filteredResults, id) = 0
       /\ (mounted = "Gallery" /\ lastInput' = "card") =>
            /\ GalleryViewerOpen'
            /\ g_selectedImage'.id \in Ids(filteredItems)
            /\ g_currentImageIndex' = PositionOf(filteredItems, g_selectedImage'.id)
            /\ g_selectedImage' = filteredItems[g_currentImageIndex' + 1]
            /\ \A id \in 1..Len(Database) :
                 id \notin Ids(filteredItems) => OpenIndex(filteredItems, id) = 0]_vars

C15_Witness ==
    /\ lastInput = "card"
    /\ \/ mounted = "Results" /\ FullscreenOpen /\ currentImageIndex = 1
          /\ selectedImage = filteredResults[2]
       \/ mounted = "Gallery" /\ GalleryViewerOpen /\ g_currentImageIndex = 1
          /\ g_selectedImage = filteredItems[2]

--------------------------------------------------------------------------
(* Swipes                                                                 *)

\* the direction a swipe from x0 to x1 stands for, "none" for a short one
SwipeDirection(x0, x1) ==
    IF x0 - x1 > 50 THEN "next" ELSE IF x1 - x0 > 50 THEN "prev" ELSE "none"

\* the index a swipe from x0 to x1 leads to, from index i on n records
SwipeIndex(x0, x1, i, n) ==
    CASE SwipeDirection(x0, x1) = "next" -> (i + 1) % n
      [] SwipeDirection(x0, x1) = "prev" -> (i - 1 + n) % n
      [] OTHER -> i

\* C16: when the finger is lifted after a swipe over the open (unzoomed)
\* viewer, a displacement of more than 50 to the left opens the next record
\* (cyclically), one of more than 50 to the right the previous one, and a
\* shorter one leaves the viewer where it is, whatever the coordinates
C16_SwipeNavigates ==
    [][lastInput' = "touchend" =>
         /\ (mounted = "Results" /\ touchStart # Absent /\ touchEnd # Absent
               /\ filteredResults # <<>>) =>
              LET j == SwipeIndex(touchStart, touchEnd, currentImageIndex, Len(filteredResults))
              IN  /\ currentImageIndex' = j
                  /\ j # currentImageIndex => selectedImage' = filteredResults[j + 1]
         /\ (mounted = "Gallery" /\ g_touchStart # Absent /\ g_touchEnd # Absent
               /\ ~g_isZoomed /\ filteredItems # <<>>) =>
              LET j == SwipeIndex(g_touchStart, g_touchEnd, g_currentImageIndex, Len(filteredItems))
              IN  /\ g_currentImageIndex' = j
                  /\ j # g_currentImageIndex => g_selectedImage' = filteredItems[j + 1]]_vars

--------------------------------------------------------------------------
(* Closing a viewer                                                       *)

\* C17: the close button (of the fullscreen viewer or of the info modal),
\* and Escape while the fullscreen viewer is open, leave nothing open,
\* whatever the index, the tab, the mode and the zoom were
C17_CloseLeavesClosed ==
    [][/\ (mounted = "Results" /\ (FullscreenOpen \/ InfoOpen) /\ lastInput' = "close") =>
            selectedImage' = NoPhoto /\ ~FullscreenOpen' /\ ~InfoOpen'
       /\ (mounted = "Results" /\ FullscreenOpen /\ lastInput' = "Escape") =>
            selectedImage' = NoPhoto /\ ~FullscreenOpen' /\ ~InfoOpen'
       /\ (mounted = "Gallery" /\ GalleryViewerOpen /\ lastInput' \in {"close", "Escape"}) =>
            g_selectedImage' = NoPhoto /\ ~GalleryViewerOpen' /\ ~g_isZoomed']_vars

\* a viewer that was open at the second record has just been closed
C17_Witness ==
    /\ lastInput \in {"close", "Escape"}
    /\ \/ mounted = "Results" /\ GridShown /\ currentImageIndex = 1
          /\ Len(filteredResults) >= 2
       \/ mounted = "Gallery" /\ GalleryGridShown /\ g_currentImageIndex = 1
          /\ Len(filteredItems) >= 2

--------------------------------------------------------------------------
(* Touches on the zoomed image of the Gallery                             *)

\* C18: while the image of the Gallery viewer is zoomed, no touch event
\* (finger down, moved or lifted) changes the index or the record shown,
\* whatever displacement the viewer has recorded
C18_ZoomedTouchKeepsRecord ==
    [][(mounted = "Gallery" /\ GalleryViewerOpen /\ g_isZoomed
          /\ lastInput' \in {"touchstart", "touchmove", "touchend"}) =>
         /\ UNCHANGED <<g_currentImageIndex, g_selectedImage>>
         /\ GalleryViewerOpen' /\ g_isZoomed']_vars

\* the finger is lifted over the zoomed image, one of two, with a recorded
\* displacement that navigates when the image is not zoomed
C18_Witness ==
    /\ mounted = "Gallery"
    /\ lastInput = "touchend"
    /\ GalleryViewerOpen /\ g_isZoomed
    /\ Len(filteredItems) >= 2
    /\ ~Falsy(g_touchStart) /\ ~Falsy(g_touchEnd)
    /\ SwipeDirection(g_touchStart, g_touchEnd) # "none"

--------------------------------------------------------------------------
(* Navigation inputs outside the open viewer                              *)

NavigationInputs == {"ArrowLeft", "ArrowRight", "prev", "next", "touchend"}

\* C19: an arrow key, a lifted swipe or a next/prev that arrives while the
\* viewer is closed, or while the filtered list is empty, changes neither
\* the selected record nor the index nor the mode, so a closed viewer stays
\* closed; it raises no error notification
C19_NavigationOutsideViewer ==
    [][lastInput' \in NavigationInputs =>
         /\ (mounted = "Results" /\ (~FullscreenOpen \/ filteredResults = <<>>)) =>
              /\ UNCHANGED <<selectedImage, currentImageIndex, viewerMode>>
              /\ toast' # "error"
         /\ (mounted = "Gallery" /\ (~GalleryViewerOpen \/ filteredItems = <<>>)) =>
              /\ UNCHANGED <<g_selectedImage, g_currentImageIndex, g_isZoomed>>
              /\ toast' # "error"]_vars

\* an arrow key was pressed over the grid of two or more records
C19_Witness ==
    /\ lastInput \in {"ArrowLeft", "ArrowRight"}
    /\ \/ mounted = "Results" /\ GridShown /\ Len(filteredResults) >= 2
       \/ mounted = "Gallery" /\ GalleryGridShown /\ Len(filteredItems) >= 2

--------------------------------------------------------------------------
(* The media type of a normalized record                                  *)

\* the media type the claim gives a raw record
MediaTypeOf(raw) == IF raw.media_type \in {"image", "video"} THEN raw.media_type ELSE "image"

\* C20: every record the normalizer puts out has a media type that is
\* 'image' or 'video': the raw media_type when that is one of the two, and
\* 'image' when it is absent or anything else
C20_MediaTypeImageOrVideo ==
    dd_runs = 1 =>
        \A i \in 1..Len(dd_output) :
            /\ dd_output[i].type \in {"image", "video"}
            /\ \A k \in 1..Len(Kept) :
                 Kept[k].id = dd_output[i].id => dd_output[i].type = MediaTypeOf(Kept[k])

--------------------------------------------------------------------------
(* The order of the deduplicator's output (checked under SpecDedup)       *)

\* the records that reach the deduplicator and are not videos, in input order
ImagesKept == SelectSeq(Kept, LAMBDA r : ~IsVideoRaw(r))

\* C21: before any sort, the output is the image records in their input
\* order, each with its own id, URL and scalars, followed by the video
\* records, one per mediaUrl, in the order in which the URLs first occur in
\* the input
C21_ImagesThenVideos ==
    dd_runs = 1 =>
        LET n == Len(ImagesKept) IN
        /\ Len(dd_output) >= n
        /\ \A i \in 1..n :
             /\ dd_output[i].type # "video"
             /\ dd_output[i].id = ImagesKept[i].id
             /\ dd_output[i].imageUrl = MediaUrl(ImagesKept[i])
             /\ dd_output[i].similarity = ImagesKept[i].similarity
             /\ dd_output[i].confidence = ImagesKept[i].confidence
             /\ dd_output[i].timestamps = <<>>
        /\ \A i \in (n + 1)..Len(dd_output) :
             /\ dd_output[i].type = "video"
             /\ Group(dd_output[i].imageUrl) # {}
        /\ \A i, j \in (n + 1)..Len(dd_output) :
             i < j => FirstOf(Group(dd_output[i].imageUrl)) < FirstOf(Group(dd_output[j].imageUrl))

\* a video, an image and a video of another URL came in, in that order
C21_Witness ==
    /\ dd_runs = 1
    /\ Len(Kept) = 3 /\ Len(dd_output) = 3
    /\ IsVideoRaw(Kept[1]) /\ ~IsVideoRaw(Kept[2]) /\ IsVideoRaw(Kept[3])
    /\ dd_output[1].id = Kept[2].id

--------------------------------------------------------------------------
(* The order of the Results list                                          *)

NonIncreasing(list) ==
    \A i, j \in 1..Len(list) : i < j => list[i].similarity >= list[j].similarity

\* the records of `after` that are in `before` too stand in the order they
\* have in `before`
SameRelativeOrder(before, after) ==
    \A i, j \in 1..Len(after) :
        (i < j /\ after[i].id \in Ids(before) /\ after[j].id \in Ids(before)) =>
            PositionOf(before, after[i].id) < PositionOf(before, after[j].id)

--------------------------------------------------------------------------
(* Switching the tab back and forth                                       *)

\* the records of a list that are of type T, in the order of the list
OfType(list, T) == SelectSeq(list, LAMBDA r : r.type = T)

\* C23: a tab switch shows the records of the chosen type, in list order,
\* and mutates nothing: the list of every type T is after the switch what
\* it was before it, so T, then U, then T again shows the list the first T
\* showed
C23_SwitchRoundTrip ==
    [][lastInput' = "tab" =>
         /\ mounted = "Results" =>
              /\ filteredResults' = OfType(results, activeMediaType')
              /\ \A T \in {"image", "video"} :
                   FilterByType(results', T) = FilterByType(results, T)
              /\ FilterByType(results', activeMediaType) = filteredResults
         /\ mounted = "Gallery" =>
              /\ filteredItems' = OfType(g_items, g_activeMediaType')
              /\ \A T \in {"image", "video"} :
                   FilterByItemType(g_items', T) = FilterByItemType(g_items, T)
              /\ FilterByItemType(g_items', g_activeMediaType) = filteredItems]_vars

\* a tab was clicked over a list that holds records of both types
C23_Witness ==
    /\ lastInput = "tab"
    /\ \/ mounted = "Results" /\ GridShown /\ filteredResults # <<>>
          /\ Len(filteredResults) < Len(results)
          /\ FilterByType(results, "image") # <<>> /\ FilterByType(results, "video") # <<>>
       \/ mounted = "Gallery" /\ GalleryGridShown /\ filteredItems # <<>>
          /\ FilterByItemType(g_items, "image") # <<>> /\ FilterByItemType(g_items, "video") # <<>>

--------------------------------------------------------------------------
(* The record on display and the index                                    *)

\* C24: whenever the fullscreen viewer of Results is open, the record it
\* shows has the id of the record at position currentImageIndex of the
\* filtered list
C24_ShownIsAtIndex ==
    (mounted = "Results" /\ FullscreenOpen) =>
        /\ currentImageIndex < Len(filteredResults)
        /\ filteredResults[currentImageIndex + 1].id = selectedImage.id

--------------------------------------------------------------------------
(* Deletes that overlap                                                   *)

\* C25: once the Gallery is loaded, its list loses a record only by a
\* delete that succeeded, and a record the list has lost is in it in no
\* later state, however the completions of overlapping deletes interleave
C25_DeletedStaysAbsent ==
    [][(mounted = "Gallery" /\ ~g_loading) =>
         \A id \in 1..Len(Database) :
            id \notin Ids(g_items) => id \notin Ids(g_items')]_vars

--------------------------------------------------------------------------
(* A save that completes after the list has changed                       *)

\* C26: while a save awaits its remote call, the list of Results only
\* loses records, also at the moment the save completes: a record rejected
\* or saved in the meantime is not put back
C26_RemovedStaysRemoved ==
    [][(mounted = "Results" /\ lastInput' = "saved") =>
         Ids(results') \subseteq Ids(results)]_vars

--------------------------------------------------------------------------
(* The closed viewer of the Gallery                                       *)

\* C27: a closed Gallery viewer stays closed until a card is clicked
\* (openImageViewer), whatever else happens, the completion of a delete
\* started before the close included
C27_ClosedUntilOpened ==
    [][(mounted = "Gallery" /\ g_selectedImage = NoPhoto /\ lastInput' # "card") =>
         g_selectedImage' = NoPhoto]_vars

--------------------------------------------------------------------------
(* The remote save requests of one accept                                 *)

\* C28: for a record accepted in Results by a signed-in user, saveToGallery
\* is called exactly once, while the call is pending and after it resolved
C28_OneSaveRequest ==
    mounted = "Results" =>
        /\ \A cl \in saves : CopiesIn(cl.id, saveRequests) = 1
        /\ \A id \in BagToSet(saveRequests) : CopiesIn(id, saveRequests) = 1

--------------------------------------------------------------------------
(* Searches that supersede one another                                    *)

\* the run c of process() is neither finished nor aborted
Live(c) == runs[c].stage # "done" /\ c \notin aborted

\* C29: at any time at most one run of process() is live, and only the
\* answer to the most recently started search is ever put into the list
C29_LatestSearchOnly ==
    [][/\ Cardinality({c \in DOMAIN runs' : Live(c)'}) <= 1
       /\ \A c \in DOMAIN runs :
            (lastInput' = "search" /\ RunSteps(c)) => c = Len(runs) /\ c \notin aborted
       /\ results' # results => lastInput' = "search"]_vars

\* the second search has answered after the first one was aborted
C29_Witness ==
    /\ lastInput = "search"
    /\ Len(runs) = 2 /\ 1 \in aborted /\ 2 \notin aborted
    /\ runs[2].stage = "done"
    /\ results # <<>>

--------------------------------------------------------------------------
(* Saved records and the list                                             *)

\* C30: once the search has completed, no record whose id is in the saved
\* ids (the ones loaded for the search and the ones saved from Results
\* since) is in the list
C30_SavedNotShown ==
    (mounted = "Results" /\ ~loading) => Ids(results) \cap savedImageIds = {}

====
